---- MODULE Spec2Model ----
(***************************************************************************)
(* Tailscale dynamic inventory plugin (plugins/inventory/tailscale.py).    *)
(*                                                                         *)
(* The model follows one invocation of InventoryModule.parse step by step: *)
(* TailscaleOAuth2API.setup -> load_token (-> get_token) -> get_devices,   *)
(* then the build loop over devices["devices"], one action per statement   *)
(* that touches the inventory.  Invocations repeat (NewRun): the token     *)
(* file lives on disk across invocations, the API object and its token do  *)
(* not, and the inventory object is either a new one or the one the        *)
(* previous invocation filled.                                             *)
(***************************************************************************)
EXTENDS Integers, Sequences, FiniteSets, TLC

\* ---------------------------------------------------------------- bounds
MaxDevices == 2

\* ------------------------------------------------------ program constants
HTTP_OK == 200
TagPrefixLen == 4

\* ------------------------------------------------------- input universes
Hostnames == {"a", "b"}
AddressLists == {<<>>, <<"10.0.0.1">>, <<"10.0.0.2", "10.0.0.1">>}
TagLists == {<<>>, <<"tag:web">>, <<"tag:db">>, <<"tag:web", "tag:db">>}
TagNames == {"web", "db"}
Filters == {<<>>, <<"web">>, <<"db">>, <<"web", "db">>}
Statuses == {200, 204, 401, 403}

\* A device record of the API response: device["hostname"],
\* device["addresses"], device.get("tags", []).
Devices == [hostname : Hostnames, addresses : AddressLists, tags : TagLists]

DeviceLists == UNION {[1..n -> Devices] : n \in 0..MaxDevices}

Range(s) == {s[k] : k \in 1..Len(s)}

\* ------------------------------------------------------------ token file
Absent == "<no file>"
CachedTokenText == "{\"access_token\": \"cached\"}"
EmptyObjectText == "{}"
GarbageText == "not json"
FileStates == {Absent, CachedTokenText, EmptyObjectText, GarbageText}

NoneToken == [kind |-> "None", has_access_token |-> FALSE, access_token |-> ""]
FetchedToken == [kind |-> "dict", has_access_token |-> TRUE, access_token |-> "fetched"]

\* json.load on the content of the token file: a decoded value, or a decode error.
json_load(text) ==
    CASE text = CachedTokenText ->
           [ok |-> TRUE,
            value |-> [kind |-> "dict", has_access_token |-> TRUE, access_token |-> "cached"]]
      [] text = EmptyObjectText ->
           [ok |-> TRUE,
            value |-> [kind |-> "dict", has_access_token |-> FALSE, access_token |-> ""]]
      [] OTHER -> [ok |-> FALSE, value |-> NoneToken]

\* ---------------------------------------------------------------- errors
NoError == [type |-> "none", status |-> 0, text |-> "", device |-> ""]
Raise(type) == [type |-> type, status |-> 0, text |-> "", device |-> ""]

NoResponse == [status_code |-> 0, text |-> ""]
NoRequest == "<no request>"

VARIABLES
    tokenFile,    \* content of .tailscale_token.json, or Absent
    token,        \* TailscaleOAuth2API.token
    authenticated,\* an earlier run completed a client-credentials exchange
    exchanged,    \* this run completed a client-credentials exchange
    request,      \* bearer token of the device request of this run, or NoRequest
    response,     \* response of the device request of this run
    devices,      \* devices["devices"] as the endpoint serves it
    tags,         \* option "tags"
    pc,           \* position of the run
    error,        \* exception that ended the run
    i,            \* index of the device the loop is at
    j,            \* index of the tag the inner loop is at
    ip_address,   \* local ip_address of parse
    hosts,        \* inventory: host names
    hostvars,     \* inventory: host name -> ansible_host
    groups,       \* inventory: get_groups_dict() restricted to the tag groups
    addGroupCalls,\* add_group calls issued on this inventory object
    hosts0, hostvars0, groups0, \* the inventory as the run found it
    baseComplete  \* the run started on the inventory a completed pass left

vars == <<tokenFile, token, authenticated, exchanged, request, response, devices, tags,
          pc, error, i, j, ip_address, hosts, hostvars, groups, addGroupCalls,
          hosts0, hostvars0, groups0, baseComplete>>

inventoryVars == <<hosts, hostvars, groups, addGroupCalls>>
snapshotVars == <<hosts0, hostvars0, groups0, baseComplete>>
apiVars == <<token, authenticated, exchanged, request, response>>
inputVars == <<tokenFile, devices, tags>>

EmptyMap == <<>>

Init ==
    /\ tokenFile \in FileStates
    /\ devices \in DeviceLists
    /\ tags \in Filters
    /\ token = NoneToken
    /\ authenticated = FALSE
    /\ exchanged = FALSE
    /\ request = NoRequest
    /\ response = NoResponse
    /\ pc = "load_token"
    /\ error = NoError
    /\ i = 1
    /\ j = 1
    /\ ip_address = ""
    /\ hosts = {}
    /\ hostvars = EmptyMap
    /\ groups = EmptyMap
    /\ addGroupCalls = 0
    /\ hosts0 = {}
    /\ hostvars0 = EmptyMap
    /\ groups0 = EmptyMap
    /\ baseComplete = FALSE

Fail(e) ==
    /\ pc' = "failed"
    /\ error' = e

\* ------------------------------------------------------ TailscaleOAuth2API

\* load_token that never finds the file.
os_path_exists_never == FALSE

os_path_exists == tokenFile # Absent

\* load_token, file present: self.token = json.load(f); a decode error propagates.
LoadTokenFromFile ==
    /\ pc = "load_token"
    /\ os_path_exists
    /\ LET r == json_load(tokenFile) IN
         IF r.ok
         THEN /\ token' = r.value
              /\ pc' = "get_devices"
              /\ UNCHANGED error
         ELSE /\ Fail(Raise("JSONDecodeError"))
              /\ UNCHANGED token
    /\ UNCHANGED <<authenticated, exchanged, request, response, i, j, ip_address>>
    /\ UNCHANGED <<inputVars, inventoryVars, snapshotVars>>

\* load_token, file absent: await self.get_token().
LoadTokenNoFile ==
    /\ pc = "load_token"
    /\ ~os_path_exists
    /\ pc' = "get_token"
    /\ UNCHANGED <<apiVars, error, i, j, ip_address>>
    /\ UNCHANGED <<inputVars, inventoryVars, snapshotVars>>

\* get_token: self.token = await client.fetch_token(self.token_url).  The token
\* endpoint grants a token or the exchange raises; nothing is written to disk.
GetToken ==
    /\ pc = "get_token"
    /\ \E granted \in BOOLEAN :
         IF granted
         THEN /\ token' = FetchedToken
              /\ exchanged' = TRUE
              /\ pc' = "get_devices"
              /\ UNCHANGED error
         ELSE /\ Fail(Raise("OAuthError"))
              /\ UNCHANGED <<token, exchanged>>
    /\ UNCHANGED <<authenticated, request, response, i, j, ip_address>>
    /\ UNCHANGED <<inputVars, inventoryVars, snapshotVars>>

\* Any 2xx status taken for success.
StatusIs2xx(status_code) == status_code \div 100 = 2

StatusIsOK(status_code) == status_code = HTTP_OK

\* get_devices: the header is built from self.token['access_token'], one GET is
\* issued, 200 returns response.json(), anything else raises Exception.
GetDevices ==
    /\ pc = "get_devices"
    /\ IF token.kind = "None"
       THEN /\ Fail(Raise("TypeError"))
            /\ UNCHANGED <<request, response>>
       ELSE IF ~token.has_access_token
       THEN /\ Fail(Raise("KeyError"))
            /\ UNCHANGED <<request, response>>
       ELSE \E status \in Statuses :
              /\ request' = token.access_token
              /\ response' = [status_code |-> status,
                              text |-> IF status = 200 THEN "devices" ELSE "denied"]
              /\ IF StatusIsOK(status)
                 THEN /\ pc' = "for_device"
                      /\ UNCHANGED error
                 ELSE Fail([type |-> "Exception", status |-> status,
                            text |-> response'.text, device |-> ""])
    /\ UNCHANGED <<token, authenticated, exchanged, i, j, ip_address>>
    /\ UNCHANGED <<inputVars, inventoryVars, snapshotVars>>

\* ---------------------------------------------------- InventoryModule.parse

\* all() in place of any().
PassesFilterAll(device_tags) ==
    \A k \in 1..Len(tags) : ("tag:" \o tags[k]) \in Range(device_tags)

\* not tags or any(f"tag:{tag}" in device_tags for tag in tags)
PassesFilter(device_tags) ==
    \/ Len(tags) = 0
    \/ \E k \in 1..Len(tags) : ("tag:" \o tags[k]) \in Range(device_tags)

\* The prefix left on the tag.
group_name_unstripped(tag) == "tag_" \o tag

\* f"tag_{tag[4:]}"
group_name(tag) == "tag_" \o SubSeq(tag, TagPrefixLen + 1, Len(tag))

\* add_group issued for every tag.
GroupMissingAlways(name) == TRUE

\* if group_name not in groups
GroupMissing(name) == name \notin DOMAIN groups

\* for device in devices["devices"]: the filter decides whether the body runs.
ForDevice ==
    /\ pc = "for_device"
    /\ IF i > Len(devices)
       THEN /\ pc' = "done"
            /\ UNCHANGED i
       ELSE IF PassesFilter(devices[i].tags)
       THEN /\ pc' = "index_address"
            /\ UNCHANGED i
       ELSE /\ i' = i + 1
            /\ UNCHANGED pc
    /\ UNCHANGED <<apiVars, error, j, ip_address>>
    /\ UNCHANGED <<inputVars, inventoryVars, snapshotVars>>

\* hostname = device["hostname"]; ip_address = device["addresses"][0]
IndexAddress ==
    /\ pc = "index_address"
    /\ IF Len(devices[i].addresses) = 0
       THEN /\ Fail(Raise("IndexError"))
            /\ UNCHANGED ip_address
       ELSE /\ ip_address' = devices[i].addresses[1]
            /\ pc' = "add_host"
            /\ UNCHANGED error
    /\ UNCHANGED <<apiVars, i, j>>
    /\ UNCHANGED <<inputVars, inventoryVars, snapshotVars>>

\* The loop body without its add_host call.
AddHostSkipped ==
    /\ pc = "add_host"
    /\ pc' = "set_variable"
    /\ UNCHANGED <<apiVars, error, i, j, ip_address>>
    /\ UNCHANGED <<inputVars, inventoryVars, snapshotVars>>

\* self.inventory.add_host(hostname)
AddHost ==
    /\ pc = "add_host"
    /\ hosts' = hosts \cup {devices[i].hostname}
    /\ pc' = "set_variable"
    /\ UNCHANGED <<apiVars, error, i, j, ip_address, hostvars, groups, addGroupCalls>>
    /\ UNCHANGED <<inputVars, snapshotVars>>

\* self.inventory.set_variable(hostname, "ansible_host", ip_address)
SetVariable ==
    /\ pc = "set_variable"
    /\ hostvars' = [h \in DOMAIN hostvars \cup {devices[i].hostname} |->
                      IF h = devices[i].hostname THEN ip_address ELSE hostvars[h]]
    /\ j' = 1
    /\ pc' = "for_tag"
    /\ UNCHANGED <<apiVars, error, i, ip_address, hosts, groups, addGroupCalls>>
    /\ UNCHANGED <<inputVars, snapshotVars>>

\* for tag in device_tags: groups = get_groups_dict(); group_name = ...;
\* if group_name not in groups: add_group(group_name).  add_group on a name
\* the inventory already has leaves that group as it is.
ForTag ==
    /\ pc = "for_tag"
    /\ IF j > Len(devices[i].tags)
       THEN /\ i' = i + 1
            /\ pc' = "for_device"
            /\ UNCHANGED <<groups, addGroupCalls>>
       ELSE LET name == group_name(devices[i].tags[j]) IN
            /\ IF GroupMissing(name)
               THEN /\ groups' = [g \in DOMAIN groups \cup {name} |->
                                    IF g \in DOMAIN groups THEN groups[g] ELSE {}]
                    /\ addGroupCalls' = addGroupCalls + 1
               ELSE UNCHANGED <<groups, addGroupCalls>>
            /\ pc' = "add_child"
            /\ UNCHANGED i
    /\ UNCHANGED <<apiVars, error, j, ip_address, hosts, hostvars>>
    /\ UNCHANGED <<inputVars, snapshotVars>>

\* self.inventory.add_child(group_name, hostname)
AddChild ==
    /\ pc = "add_child"
    /\ LET name == group_name(devices[i].tags[j]) IN
         groups' = [groups EXCEPT ![name] = @ \cup {devices[i].hostname}]
    /\ j' = j + 1
    /\ pc' = "for_tag"
    /\ UNCHANGED <<apiVars, error, i, ip_address, hosts, hostvars, addGroupCalls>>
    /\ UNCHANGED <<inputVars, snapshotVars>>

\* ------------------------------------------------------------- invocations

\* The next invocation: a new TailscaleOAuth2API (token None), the same token
\* file, tailnet and options; parse is handed either the inventory object the
\* previous invocation filled or a new one.
NewRun ==
    /\ pc \in {"done", "failed"}
    /\ authenticated' = (authenticated \/ exchanged)
    /\ token' = NoneToken
    /\ exchanged' = FALSE
    /\ request' = NoRequest
    /\ response' = NoResponse
    /\ pc' = "load_token"
    /\ error' = NoError
    /\ i' = 1
    /\ j' = 1
    /\ ip_address' = ""
    /\ \E keep \in BOOLEAN :
         IF keep
         THEN /\ UNCHANGED inventoryVars
              /\ hosts0' = hosts
              /\ hostvars0' = hostvars
              /\ groups0' = groups
              /\ baseComplete' = (pc = "done")
         ELSE /\ hosts' = {}
              /\ hostvars' = EmptyMap
              /\ groups' = EmptyMap
              /\ addGroupCalls' = 0
              /\ hosts0' = {}
              /\ hostvars0' = EmptyMap
              /\ groups0' = EmptyMap
              /\ baseComplete' = FALSE
    /\ UNCHANGED inputVars

Next ==
    \/ LoadTokenFromFile
    \/ LoadTokenNoFile
    \/ GetToken
    \/ GetDevices
    \/ ForDevice
    \/ IndexAddress
    \/ AddHost
    \/ SetVariable
    \/ ForTag
    \/ AddChild
    \/ NewRun

Spec == Init /\ [][Next]_vars

\* ================================================================= claims

\* The filtering rule as the specification words it: the filter is empty, or
\* some filter entry t has "tag:" + t among the device's tags.
Included(d) ==
    \/ tags = <<>>
    \/ \E t \in Range(tags) : \E dt \in Range(d.tags) : dt = "tag:" \o t

IncludedIndexes == {k \in 1..Len(devices) : Included(devices[k])}

IncludedHostnames == {devices[k].hostname : k \in IncludedIndexes}

\* The last included device of the collection that bears hostname h.
LastIncluded(h) ==
    CHOOSE k \in IncludedIndexes :
        /\ devices[k].hostname = h
        /\ \A m \in IncludedIndexes : devices[m].hostname = h => m <= k

InventoryAsFound ==
    /\ hosts = hosts0
    /\ hostvars = hostvars0
    /\ groups = groups0

InLoop == pc \in {"for_device", "index_address", "add_host", "set_variable",
                  "for_tag", "add_child"}

\* C1 (as claimed): when parse has returned, the hosts are exactly the
\* hostnames of the devices that pass the filter, and for every such device
\* the host's ansible_host is that device's addresses[0].
C1_HostsAndEveryDeviceAddress ==
    pc = "done" =>
        /\ hosts = IncludedHostnames
        /\ DOMAIN hostvars = hosts
        /\ \A k \in IncludedIndexes :
             hostvars[devices[k].hostname] = devices[k].addresses[1]

\* C1 (amended): when parse has returned, the hosts are exactly the hostnames
\* of the devices that pass the filter, and each host's ansible_host is
\* addresses[0] of the last passing device of the collection with that hostname.
C1_HostsAndLastDeviceAddress ==
    pc = "done" =>
        /\ hosts = IncludedHostnames
        /\ DOMAIN hostvars = hosts
        /\ \A h \in hosts : hostvars[h] = devices[LastIncluded(h)].addresses[1]

\* Witness of C1: a completed build under a non-empty filter where two passing
\* devices share a hostname and differ in their first address.
C1_Witness ==
    /\ pc = "done"
    /\ tags # <<>>
    /\ \E k, m \in IncludedIndexes :
         /\ k < m
         /\ devices[k].hostname = devices[m].hostname
         /\ devices[k].addresses[1] # devices[m].addresses[1]

\* The group memberships the specification derives: for every included device
\* and every tag "tag:" + n on it, the hostname is a member of "tag_" + n.
ExpectedMemberships ==
    {<<"tag_" \o n, devices[k].hostname>> :
        <<n, k>> \in {p \in TagNames \X IncludedIndexes :
                        ("tag:" \o p[1]) \in Range(devices[p[2]].tags)}}

Memberships == UNION {{<<g, h>> : h \in groups[g]} : g \in DOMAIN groups}

\* C2: when the build has completed, for every included device and every tag
\* on it the group "tag_" + (tag without "tag:") exists and holds the hostname,
\* and there is no other group and no other member: nothing comes from an
\* excluded device.
C2_GroupsFromAllTagsOfIncluded ==
    pc = "done" =>
        /\ Memberships = ExpectedMemberships
        /\ DOMAIN groups = {p[1] : p \in ExpectedMemberships}

\* Witness of C2: a completed build where an included device carries a tag the
\* filter does not name and a tagged device is excluded.
C2_Witness ==
    /\ pc = "done"
    /\ tags # <<>>
    /\ \E k \in IncludedIndexes : \E dt \in Range(devices[k].tags) :
         \A t \in Range(tags) : dt # "tag:" \o t
    /\ \E k \in 1..Len(devices) :
         /\ k \notin IncludedIndexes
         /\ devices[k].tags # <<>>

\* C3 (as claimed): in every run that follows a run which completed a
\* client-credentials exchange, the token is in the cache file and the run
\* neither enters nor completes an exchange.
C3_TokenCachedAcrossRuns ==
    authenticated =>
        /\ tokenFile # Absent
        /\ pc # "get_token"
        /\ ~exchanged

\* C4 (as claimed): with a token file that is not well-formed the run does not
\* fail on the cache: past load_token it is exchanging, or has exchanged, a
\* fresh token.
C4_CorruptCacheRederivesToken ==
    (tokenFile = GarbageText /\ pc # "load_token") =>
        (pc = "get_token" \/ exchanged)

\* C5 (as claimed): a run that failed has left nothing in the inventory: the
\* hosts, variables and groups are those the run found.
C5_NoPartialSuccess ==
    pc = "failed" => InventoryAsFound

\* C6 (as claimed): a run that stops at an included device with an empty
\* address list fails with PreconditionViolation naming that device.
C6_PreconditionViolationNamesDevice ==
    (/\ pc = "failed"
     /\ response.status_code = 200
     /\ i <= Len(devices)) =>
        /\ error.type = "PreconditionViolation"
        /\ error.device = devices[i].hostname

\* C7: every status other than 200 of the device request ends the run with an
\* error carrying that status and the response body, the inventory being as
\* the run found it; the build loop is entered only on status 200.
C7_Non200FailsBeforeAnyAdd ==
    /\ (request # NoRequest /\ response.status_code # 200) =>
         /\ pc = "failed"
         /\ error.type = "Exception"
         /\ error.status = response.status_code
         /\ error.text = response.text
         /\ InventoryAsFound
    /\ (InLoop \/ pc = "done") => response.status_code = 200

\* Witness of C7: status 403 ends a run that was handed a filled inventory.
C7_Witness ==
    /\ pc = "failed"
    /\ response.status_code = 403
    /\ error.status = 403
    /\ hosts0 # {}

\* C8: in every state, every member of every group is a host of the inventory.
C8_GroupMembersAreHosts ==
    \A g \in DOMAIN groups : groups[g] \subseteq hosts

\* Witness of C8: the loop stands between add_group and add_child of a device
\* while an earlier device already is a member of a group.
C8_Witness ==
    /\ pc = "add_child"
    /\ i > 1
    /\ \E g \in DOMAIN groups : groups[g] # {}

\* C9: a pass over the same input on the inventory a completed pass left ends
\* with the hosts, ansible_host values and group members of that first pass,
\* and every add_group call issued on an inventory created a group.
C9_BuildIdempotent ==
    /\ (pc = "done" /\ baseComplete) => InventoryAsFound
    /\ addGroupCalls = Cardinality(DOMAIN groups)

\* Witness of C9: a second pass has completed on a collection in which two
\* included devices share a hostname and a tag and differ in first address.
C9_Witness ==
    /\ pc = "done"
    /\ baseComplete
    /\ \E k, m \in IncludedIndexes :
         /\ k < m
         /\ devices[k].hostname = devices[m].hostname
         /\ devices[k].addresses[1] # devices[m].addresses[1]
         /\ Range(devices[k].tags) \cap Range(devices[m].tags) # {}

\* C10: the exchange happens only in a run that found no token file; a device
\* request is issued only with a token set, and bears that token; when the
\* file exists the request bears the file's token, whatever its validity, and
\* the run has made no exchange.
C10_ExchangeOnlyWithoutFile ==
    /\ (pc = "get_token" \/ exchanged) => tokenFile = Absent
    /\ (pc = "get_devices" \/ request # NoRequest) => token.kind # "None"
    /\ request # NoRequest => request = token.access_token
    /\ (request # NoRequest /\ tokenFile # Absent) =>
         /\ tokenFile = CachedTokenText
         /\ request = "cached"
         /\ ~exchanged

\* Witness of C10: the cached token was sent, the endpoint rejected it with
\* 401, and the run made no exchange.
C10_Witness ==
    /\ tokenFile = CachedTokenText
    /\ request = "cached"
    /\ response.status_code = 401
    /\ ~exchanged
====
